---- MODULE Spec2Model ----
(***************************************************************************)
(* A model of the agent assembly core of agno-smart-assistant:             *)
(* the configuration singleton (config/settings.py), model resolution      *)
(* (config/model_provider.py), BaseAgentBuilder.build, the three agent     *)
(* factories and create_runtime, the conversation store the agents open,   *)
(* and the knowledge loader (load_knowledge.py).                           *)
(*                                                                         *)
(* Optional values (Python's None) are sequences of length at most one:    *)
(* None is <<>> and a present value x is <<x>>.  A call's outcome is a     *)
(* record [ok, val, err, log]: the value returned or the exception raised, *)
(* and the lines printed on the way.                                       *)
(***************************************************************************)
EXTENDS Integers, Sequences, FiniteSets, Bags, TLC

VARIABLES
    env,          \* the process environment (os.getenv); only SetEnv changes it
    world,        \* what the outside does: can the store / the knowledge base be opened
    _config,      \* settings._config, the global AppConfig singleton (or None)
    runtime,      \* agno_agent.runtime: the AgentOS registry (or None)
    constructed,  \* the agents the latest create_runtime call constructed, in order
    built,        \* the agents BaseAgentBuilder.build has returned so far
    store,        \* the backing SQLite file: table -> session -> turns
    index,        \* the LanceDB table agno_assist_knowledge: the stored chunks
    ingested,     \* number of ingestion runs that did fetch/chunk/embed work
    pipeline,     \* where the knowledge source stands: Unloaded, Ingesting, Ready, Failed
    loggers,      \* logging's registry: name -> the logger getLogger(name) gives
    lastCall      \* the latest call: [op, args, res]

vars == <<env, world, _config, runtime, constructed, built, store, index, ingested, pipeline, loggers, lastCall>>

None == <<>>
Some(x) == <<x>>

Ok(v) == [ok |-> TRUE, val |-> <<v>>, err |-> <<>>, log |-> <<>>]
Err(e) == [ok |-> FALSE, val |-> <<>>, err |-> <<e>>, log |-> <<>>]

\* the outcome r with the lines `lines` printed before it
Printed(lines, r) == [r EXCEPT !.log = lines \o @]

\* sequencing: F on the value of r when r returned, r itself when it raised
Then(r, F(_)) == IF r.ok THEN Printed(r.log, F(r.val[1])) ELSE r

----------------------------------------------------------------------------
(* config/constants.py *)

DEFAULT_DB_FILE == "agno.db"
DEFAULT_MCP_URL == "https://docs.agno.com/mcp"
DEFAULT_LOG_LEVEL == "info"
APP_NAME == "Agno Smart Assistant"

CONVERSATION_AGENT_CONFIG ==
    [name |-> "Agno Smart Assistant",
     description |-> "Main conversational agent with tool access",
     instructions |-> "conversation-instructions",
     db_table |-> "agno-smart-assistant"]

RESEARCH_AGENT_CONFIG ==
    [name |-> "Research Agent",
     description |-> "Specialized agent for research and analysis",
     instructions |-> "research-instructions",
     db_table |-> "research-agent"]

ASSIST_AGENT_CONFIG ==
    [name |-> "Agno Assist",
     description |-> "Documentation assistant using RAG for Agno framework questions",
     instructions |-> "assist-instructions",
     db_table |-> "assist-agent"]

----------------------------------------------------------------------------
(* The environment.  The variables not listed are unset, so their         *)
(* defaults apply (AGNO_DB_FILE, AGNO_MCP_URL, LOG_LEVEL, ...).            *)

OpenAIKeys == {None, Some("sk-openai-abcd")}
AnthropicKeys == {None, Some("sk-ant-wxyz")}
ProviderSettings == {None, Some("openai"), Some("anthropic"), Some("OpenAI"), Some("mistral")}
ModelIdSettings == {None, Some("gpt-4-turbo")}

Environments ==
    [OPENAI_API_KEY : OpenAIKeys, ANTHROPIC_API_KEY : AnthropicKeys,
     MODEL_PROVIDER : ProviderSettings, MODEL_ID : ModelIdSettings]

Worlds == [db_ok : BOOLEAN, kb_ok : BOOLEAN]

\* os.getenv(name, default)
getenv(name, default) == IF env[name] = None THEN default ELSE env[name][1]

\* str.lower() on the provider names of the model
lower(s) == CASE s = "OpenAI" -> "openai" [] OTHER -> s

----------------------------------------------------------------------------
(* config/settings.py *)

OpenAIConfig_from_env == [api_key |-> getenv("OPENAI_API_KEY", "")]

AnthropicConfig_from_env == [api_key |-> getenv("ANTHROPIC_API_KEY", "")]

DatabaseConfig_from_env == [db_file |-> DEFAULT_DB_FILE]

default_models(provider) ==
    CASE provider = "openai" -> "gpt-4"
      [] provider = "anthropic" -> "claude-3-5-sonnet-20241022"
      [] OTHER -> "gpt-4"

\* the provider the environment selects
env_provider == lower(getenv("MODEL_PROVIDER", "openai"))

ModelConfig_from_env ==
    [provider |-> env_provider,
     model_id |-> getenv("MODEL_ID", default_models(env_provider))]

AgentConfig_from_env == [mcp_url |-> DEFAULT_MCP_URL]

ServerConfig_from_env == [log_level |-> DEFAULT_LOG_LEVEL]

NoApiKeyError(provider) ==
    [kind |-> "ValueError", msg |-> "No API key configured",
     value |-> provider, supported |-> {}]

\* a validation that asks for the key of the selected provider
AppConfig_post_init_selected(cfg) ==
    IF \/ cfg.model.provider = "openai" /\ cfg.openai.api_key = ""
       \/ cfg.model.provider = "anthropic" /\ cfg.anthropic.api_key = ""
       \/ cfg.openai.api_key = "" /\ cfg.anthropic.api_key = ""
    THEN Err(NoApiKeyError(cfg.model.provider))
    ELSE Ok(cfg)

\* AppConfig.__post_init__: at least one of the two keys must be set
AppConfig_post_init(cfg) ==
    IF cfg.openai.api_key = "" /\ cfg.anthropic.api_key = ""
    THEN Err(NoApiKeyError(cfg.model.provider))
    ELSE Ok(cfg)

AppConfig_from_env ==
    AppConfig_post_init(
        [openai |-> OpenAIConfig_from_env,
         anthropic |-> AnthropicConfig_from_env,
         model |-> ModelConfig_from_env,
         database |-> DatabaseConfig_from_env,
         agent |-> AgentConfig_from_env,
         server |-> ServerConfig_from_env])

\* AppConfig.to_dict.  An API key is a sequence of characters here, so
\* that the slice of the mask is computed and not assumed.
KeyAlphabet == {"a", "b"}
MaxKeyLen == 5   \* the longest key tried

KeyValues == UNION {[1..n -> KeyAlphabet] : n \in 0..MaxKeyLen}

Stars == <<"*", "*", "*">>
NotSet == <<"N", "O", "T", " ", "S", "E", "T">>

\* api_key[-4:]
last4(api_key) ==
    SubSeq(api_key, IF Len(api_key) > 4 THEN Len(api_key) - 3 ELSE 1, Len(api_key))

\* "***" + (api_key[-4:] if api_key else "NOT SET")
mask(api_key) == Stars \o (IF api_key # <<>> THEN last4(api_key) ELSE NotSet)

\* AppConfig(openai=OpenAIConfig(api_key=oa), anthropic=AnthropicConfig(api_key=an)):
\* the other parts are filled in from the environment by __post_init__
AppConfigWith(oa, an) ==
    [openai |-> [api_key |-> oa],
     anthropic |-> [api_key |-> an],
     model |-> ModelConfig_from_env,
     database |-> DatabaseConfig_from_env,
     agent |-> AgentConfig_from_env,
     server |-> ServerConfig_from_env]

to_dict(cfg) ==
    [app |-> [name |-> APP_NAME],
     model |-> [provider |-> cfg.model.provider, model_id |-> cfg.model.model_id],
     openai |-> [api_key |-> mask(cfg.openai.api_key)],
     anthropic |-> [api_key |-> mask(cfg.anthropic.api_key)],
     database |-> [db_file |-> cfg.database.db_file],
     agent |-> [mcp_url |-> cfg.agent.mcp_url],
     server |-> [log_level |-> cfg.server.log_level]]

\* get_config() loading from the environment on every call
get_config_reload(c) == AppConfig_from_env

\* get_config() called with the singleton holding c: what the call returns
get_config(c) == IF c = None THEN AppConfig_from_env ELSE Ok(c[1])

\* the singleton after a get_config() that assigns a fresh load on every call
get_config_global_reload(c) ==
    IF AppConfig_from_env.ok THEN AppConfig_from_env.val ELSE c

\* the singleton after a get_config() that keeps the instance whose
\* validation failed
get_config_global_unvalidated(c) ==
    IF c = None
    THEN Some([openai |-> OpenAIConfig_from_env,
               anthropic |-> AnthropicConfig_from_env,
               model |-> ModelConfig_from_env,
               database |-> DatabaseConfig_from_env,
               agent |-> AgentConfig_from_env,
               server |-> ServerConfig_from_env])
    ELSE c

\* get_config() called with the singleton holding c: the singleton after it
\* (_config = AppConfig.from_env() is assigned only when from_env returned)
get_config_global(c) ==
    IF c = None /\ AppConfig_from_env.ok THEN AppConfig_from_env.val ELSE c

----------------------------------------------------------------------------
(* config/model_provider.py *)

SupportedProviders == {"openai", "anthropic"}

UnsupportedProviderError(provider) ==
    [kind |-> "ValueError", msg |-> "Unsupported provider",
     value |-> provider, supported |-> SupportedProviders]

\* Python's `x or y` on an Optional[str]: None and "" are both falsy
OrElse(opt, fallback) ==
    IF opt = None \/ opt = Some("") THEN fallback ELSE opt[1]

OpenAIChat(id, api_key) == [cls |-> "OpenAIChat", id |-> id, api_key |-> api_key]
Claude(id, api_key) == [cls |-> "Claude", id |-> id, api_key |-> api_key]

\* the if/elif/else of get_model with OpenAI as the fallback of the else branch
select_client_fallback(config, final_provider, final_model_id) ==
    IF final_provider = "anthropic"
    THEN Ok(Claude(final_model_id, config.anthropic.api_key))
    ELSE Ok(OpenAIChat(final_model_id, config.openai.api_key))

\* the if/elif/else of get_model
select_client(config, final_provider, final_model_id) ==
    CASE final_provider = "openai" ->
           Ok(OpenAIChat(final_model_id, config.openai.api_key))
      [] final_provider = "anthropic" ->
           Ok(Claude(final_model_id, config.anthropic.api_key))
      [] OTHER -> Err(UnsupportedProviderError(final_provider))

get_model(c, provider, model_id) ==
    Then(get_config(c), LAMBDA config :
        select_client(config,
                      OrElse(provider, config.model.provider),
                      OrElse(model_id, config.model.model_id)))

----------------------------------------------------------------------------
(* The objects the factories construct (agno's constructors, as called).   *)

\* SqliteDb(db_file=..., session_table=...): a handle on one table of the
\* backing file; opening fails when the file cannot be opened
StorageError(db_file) ==
    [kind |-> "StorageError", msg |-> "cannot open database",
     value |-> db_file, supported |-> {}]

SqliteDb(db_file, session_table) ==
    IF world.db_ok
    THEN Ok([db_file |-> db_file, session_table |-> session_table])
    ELSE Err(StorageError(db_file))

MCPTools(transport, url) == [cls |-> "MCPTools", transport |-> transport, url |-> url]

KnowledgeError ==
    [kind |-> "Exception", msg |-> "Could not create knowledge base",
     value |-> "tmp/lancedb", supported |-> {}]

\* Knowledge(vector_db=LanceDb(uri, table_name, search_type, embedder))
Knowledge(uri, table_name, search_type, embedder) ==
    IF world.kb_ok
    THEN Ok([cls |-> "Knowledge", uri |-> uri, table_name |-> table_name,
             search_type |-> search_type, embedder |-> embedder])
    ELSE Err(KnowledgeError)

NoAttrs ==
    [vector_db |-> None, knowledge_base |-> None, embeddings |-> None,
     users |-> None, memory_config |-> None]

\* Agent(...): the keyword arguments as passed.  An argument the call does
\* not pass is None (id, tools, knowledge, num_history_runs) or in neither
\* flag set; flags_on / flags_off hold the boolean arguments passed as
\* True / False; attrs are the attributes set on the object afterwards.
Agent(id, name, model, db, tools, knowledge, description, instructions, num_history_runs, flags_on, flags_off) ==
    [id |-> id, name |-> name, model |-> model, db |-> db, tools |-> tools,
     knowledge |-> knowledge, description |-> description,
     instructions |-> instructions, num_history_runs |-> num_history_runs,
     flags_on |-> flags_on, flags_off |-> flags_off, attrs |-> NoAttrs]

----------------------------------------------------------------------------
(* agents/conversation_agent.py *)

create_conversation_agent(c) ==
    Then(get_config(c), LAMBDA config :
    Then(SqliteDb(config.database.db_file, None), LAMBDA db :
    Then(get_model(Some(config), None, None), LAMBDA model :
        Ok(Agent(Some(CONVERSATION_AGENT_CONFIG.db_table),
                 CONVERSATION_AGENT_CONFIG.name,
                 model, db, None, None,
                 CONVERSATION_AGENT_CONFIG.description,
                 CONVERSATION_AGENT_CONFIG.instructions,
                 Some(3), {"add_history_to_context", "markdown"}, {})))))

(* agents/research_agent.py *)

\* the boolean arguments create_research_agent passes to Agent(...), and
\* the same with add_memories_to_context=True among them
research_flags_with_memories ==
    {"add_history_to_context", "add_memories_to_context", "markdown"}

research_flags == {"add_history_to_context", "markdown"}

create_research_agent(c) ==
    Then(get_config(c), LAMBDA config :
    Then(SqliteDb(config.database.db_file, None), LAMBDA db :
    Then(Ok(MCPTools("streamable-http", config.agent.mcp_url)), LAMBDA mcp_tools :
    Then(get_model(Some(config), None, None), LAMBDA model :
        Ok(Agent(Some(RESEARCH_AGENT_CONFIG.db_table),
                 RESEARCH_AGENT_CONFIG.name,
                 model, db, Some(<<mcp_tools>>), None,
                 RESEARCH_AGENT_CONFIG.description,
                 RESEARCH_AGENT_CONFIG.instructions,
                 Some(3), research_flags, {}))))))

(* agents/assist_agent.py *)

KnowledgeReady ==
    <<"[INFO] Assist agent created with RAG enabled (knowledge base ready)">>

KnowledgeWarning ==
    <<"[WARNING] Could not create knowledge base",
      "[INFO] Creating assist agent WITHOUT RAG (basic mode)">>

\* a try/except that absorbs the failure but binds `knowledge` to the
\* knowledge base that could not be opened
absorb_failure_keeping_handle(k) ==
    IF k.ok THEN Printed(KnowledgeReady, Ok(Some(k.val[1])))
            ELSE Printed(KnowledgeWarning,
                         Ok(Some([cls |-> "Knowledge", uri |-> "tmp/lancedb",
                                  table_name |-> "agno_assist_knowledge",
                                  search_type |-> "hybrid",
                                  embedder |-> "text-embedding-3-small"])))

\* a call with outcome k made outside any try/except: a failure is raised
raise_failure(k) ==
    IF k.ok THEN Printed(KnowledgeReady, Ok(Some(k.val[1]))) ELSE k

\* what is left of a try/except Exception around the call with outcome k:
\* a failure is printed and absorbed, and `knowledge` is bound to None
absorb_failure(k) ==
    IF k.ok THEN Printed(KnowledgeReady, Ok(Some(k.val[1])))
            ELSE Printed(KnowledgeWarning, Ok(None))

\* the try/except block of create_assist_agent
assist_knowledge ==
    absorb_failure(Knowledge("tmp/lancedb", "agno_assist_knowledge", "hybrid",
                             "text-embedding-3-small"))

\* create_assist_agent() with the opening of the store inside a try/except
\* of its own: a failure leaves db = None and the agent is still returned
create_assist_agent_absorbing_store(c) ==
    Then(get_config(c), LAMBDA config :
    Then(assist_knowledge, LAMBDA knowledge :
    Then(get_model(Some(config), None, None), LAMBDA model :
        Ok(Agent(Some(ASSIST_AGENT_CONFIG.db_table),
                 ASSIST_AGENT_CONFIG.name,
                 model,
                 IF SqliteDb(config.database.db_file, None).ok
                 THEN SqliteDb(config.database.db_file, None).val[1]
                 ELSE None,
                 None, knowledge,
                 ASSIST_AGENT_CONFIG.description,
                 ASSIST_AGENT_CONFIG.instructions,
                 Some(3),
                 {"add_history_to_context", "add_datetime_to_context", "markdown"},
                 {})))))

create_assist_agent(c) ==
    Then(get_config(c), LAMBDA config :
    Then(SqliteDb(config.database.db_file, None), LAMBDA db :
    Then(assist_knowledge, LAMBDA knowledge :
    Then(get_model(Some(config), None, None), LAMBDA model :
        Ok(Agent(Some(ASSIST_AGENT_CONFIG.db_table),
                 ASSIST_AGENT_CONFIG.name,
                 model, db, None, knowledge,
                 ASSIST_AGENT_CONFIG.description,
                 ASSIST_AGENT_CONFIG.instructions,
                 Some(3),
                 {"add_history_to_context", "add_datetime_to_context", "markdown"},
                 {}))))))

----------------------------------------------------------------------------
(* agents/base_agent.py *)

\* the three context flags of build, as the sets of flags passed True / False
ContextFlags ==
    {"add_session_state_to_context", "add_dependencies_to_context",
     "add_memories_to_context"}

\* add_memories_to_context passed the value of add_dependencies_to_context
build_flags_on_copied(args) ==
    {f \in ContextFlags :
        IF f = "add_memories_to_context"
        THEN args["add_dependencies_to_context"] ELSE args[f]}

build_flags_on(args) == {f \in ContextFlags : args[f]}

build_flags_off(args) == {f \in ContextFlags : ~args[f]}

\* final_model = model if model is not None else get_model()
final_model(config, model) ==
    IF model # None THEN Ok(model[1]) ELSE get_model(Some(config), None, None)

\* final_db with a store that cannot be opened replaced by an in-memory one
final_db_fallback(config, db, db_table) ==
    IF db # None THEN Ok(db[1])
    ELSE IF world.db_ok THEN SqliteDb(config.database.db_file, Some(db_table))
    ELSE Ok([db_file |-> ":memory:", session_table |-> Some(db_table)])

\* final_db = db if db is not None else SqliteDb(db_file, session_table=db_table)
final_db(config, db, db_table) ==
    IF db # None THEN Ok(db[1]) ELSE SqliteDb(config.database.db_file, Some(db_table))

\* final_tools = tools if tools is not None else []
final_tools(tools) == IF tools # None THEN tools[1] ELSE <<>>

\* the "if x is not None: agent.x = x" block after construction
attach_optional(agent, args) ==
    [agent EXCEPT !.attrs =
        [vector_db |-> args.vector_db, knowledge_base |-> args.knowledge_base,
         embeddings |-> args.embeddings, users |-> args.users,
         memory_config |-> args.memory_config]]

\* BaseAgentBuilder.build(name, description, instructions, db_table, ...)
build(c, args) ==
    Then(get_config(c), LAMBDA config :
    Then(final_model(config, args.model), LAMBDA model :
    Then(final_db(config, args.db, args.db_table), LAMBDA db :
        Ok(attach_optional(
             Agent(None, args.name, model, db, Some(final_tools(args.tools)), None,
                   args.description, args.instructions, None,
                   build_flags_on(args), build_flags_off(args)),
             args)))))

----------------------------------------------------------------------------
(* core/runtime.py *)

AgentOS(name, agents) == [name |-> name, agents |-> agents]

\* the agents the three factory calls of create_runtime construct, in
\* order, up to the first one that raises
constructed_by(conversation_agent, research_agent, assist_agent) ==
    IF ~conversation_agent.ok THEN <<>>
    ELSE IF ~research_agent.ok THEN <<conversation_agent.val[1]>>
    ELSE IF ~assist_agent.ok THEN <<conversation_agent.val[1], research_agent.val[1]>>
    ELSE <<conversation_agent.val[1], research_agent.val[1], assist_agent.val[1]>>

\* create_runtime() registering the research agent ahead of the conversation agent
create_runtime_reordered(c) ==
    Then(get_config(c), LAMBDA config :
    Then(create_conversation_agent(Some(config)), LAMBDA conversation_agent :
    Then(create_research_agent(Some(config)), LAMBDA research_agent :
    Then(create_assist_agent(Some(config)), LAMBDA assist_agent :
        Ok(AgentOS(APP_NAME, <<research_agent, conversation_agent, assist_agent>>))))))

\* create_runtime(): the registry, or the first exception raised
create_runtime(c) ==
    Then(get_config(c), LAMBDA config :
    Then(create_conversation_agent(Some(config)), LAMBDA conversation_agent :
    Then(create_research_agent(Some(config)), LAMBDA research_agent :
    Then(create_assist_agent(Some(config)), LAMBDA assist_agent :
        Ok(AgentOS(APP_NAME, <<conversation_agent, research_agent, assist_agent>>))))))

\* create_runtime() from the outcomes of its three factory calls: the
\* registry, or the first exception raised
create_runtime_of(conversation_agent, research_agent, assist_agent) ==
    Then(conversation_agent, LAMBDA a :
    Then(research_agent, LAMBDA b :
    Then(assist_agent, LAMBDA d :
        Ok(AgentOS(APP_NAME, <<a, b, d>>)))))

\* the agents a create_runtime() call constructs before it returns or raises
create_runtime_constructed(c) ==
    IF ~get_config(c).ok THEN <<>>
    ELSE constructed_by(create_conversation_agent(get_config_global(c)),
                        create_research_agent(get_config_global(c)),
                        create_assist_agent(get_config_global(c)))

----------------------------------------------------------------------------
(* The conversation store: the backing file DEFAULT_DB_FILE.  A handle     *)
(* reads and writes the table it was opened on (session_table; None is the *)
(* table a handle opened without a table name gets), and a table holds one *)
(* row of turns per session id.  A turn records the store key of the agent *)
(* that appended it.                                                       *)

IsolationKeys == {"a", "b"}
Tables == {None} \cup {Some(k) : k \in {"", "a", "b"}}
Sessions == {"s1", "s2"}
Contents == {"hello", "hi"}
MaxTurns == 2        \* turns appended per run
HistoryWindow == 3   \* num_history_runs=3

EmptyStore == [t \in Tables |-> [sid \in Sessions |-> <<>>]]

TurnCount(st) ==
    LET cells == Tables \X Sessions
        sum[S \in SUBSET cells] ==
            IF S = {} THEN 0
            ELSE LET x == CHOOSE y \in S : TRUE
                 IN  Len(st[x[1]][x[2]]) + sum[S \ {x}]
    IN  sum[cells]

\* append(handle, turn)
append(st, db, sid, turn) ==
    [st EXCEPT ![db.session_table][sid] = Append(@, turn)]

\* read(handle, window): the latest `window` turns of the session
read(st, db, sid, window) ==
    LET turns == st[db.session_table][sid]
        n == Len(turns)
    IN  IF n <= window THEN turns ELSE SubSeq(turns, n - window + 1, n)

\* the agents that can serve requests: [key, db], key the agent's store key
Serving ==
    (IF runtime = None THEN {}
     ELSE {[key |-> runtime[1].agents[i].id[1], db |-> runtime[1].agents[i].db] :
              i \in DOMAIN runtime[1].agents})
    \cup {[key |-> b.store_key, db |-> b.db] : b \in BagToSet(built)}

----------------------------------------------------------------------------
(* load_knowledge.py: the documentation source and the vector table.       *)

DOC_NAME == "Agno Documentation"
DOC_URL == "https://docs.agno.com/llms-full.txt"
NumChunks == 3   \* chunks the documentation splits into
MaxRuns == 3     \* runs of the loader that do ingestion work, per run of the model

\* the flag load_documentation passes to add_content, and the flag negated
skip_if_exists_off == FALSE

skip_if_exists == TRUE

\* embed(text) of chunk n of the source
Embedding(n) == <<"text-embedding-3-small", n>>

ChunksOf(name) ==
    [n \in 1..NumChunks |-> [source |-> name, chunk |-> n, embedding |-> Embedding(n)]]

SourcePresent(ix, name) == \E i \in DOMAIN ix : ix[i].source = name

IngestionError(n) ==
    [kind |-> "Exception", msg |-> "Failed to load documentation",
     value |-> n, supported |-> {}]

\* knowledge.add_content(name, url, skip_if_exists): a source already in the
\* table is skipped when skip is set; otherwise the content is fetched,
\* chunked, embedded and written.  fail_at = None is a run nothing goes
\* wrong in; fail_at = <<n>> is a failure after n chunks were processed, of
\* which `kept` stay in the table.
add_content(ix, name, url, skip, fail_at, kept) ==
    IF skip /\ SourcePresent(ix, name)
    THEN [index |-> ix, res |-> Ok("skipped"), work |-> 0]
    ELSE IF fail_at = None
    THEN [index |-> ix \o ChunksOf(name), res |-> Ok("added"), work |-> 1]
    ELSE [index |-> ix \o SubSeq(ChunksOf(name), 1, kept),
          res |-> Err(IngestionError(fail_at[1])), work |-> 1]

\* what load_documentation prints around the outcome r of add_content
loader_report(r) ==
    IF r.ok THEN Printed(<<"[SUCCESS] Documentation loaded successfully!">>, r)
            ELSE Printed(<<"[ERROR] Failed to load documentation">>, r)

\* where a run of load_documentation leaves the source, reporting success
\* whatever add_content did
outcome_state_always_ready(r) == "Ready"

\* where a run of load_documentation leaves the source: [SUCCESS] after
\* add_content returned, [ERROR] and exit(1) after it raised
outcome_state(r) == IF r.ok THEN "Ready" ELSE "Failed"

MaxK == 2   \* the largest number of chunks a query asks for

\* query(text, k) through an agent: no retrieval without a knowledge base;
\* otherwise the first k chunks of the table, which must be reachable
query(knowledge, ix, k) ==
    IF knowledge = None THEN Ok(<<>>)
    ELSE IF ~world.kb_ok THEN Err(KnowledgeError)
    ELSE Ok(SubSeq(ix, 1, IF k < Len(ix) THEN k ELSE Len(ix)))

----------------------------------------------------------------------------
(* utils/logger.py *)

LoggerNames == {"app", "agents"}
LevelArgs == {None, Some(""), Some("DEBUG"), Some("debug")}

\* the level names logging accepts (handler.setLevel raises on any other)
ValidLevels == {"CRITICAL", "FATAL", "ERROR", "WARNING", "WARN", "INFO", "DEBUG", "NOTSET"}

\* str.upper() on the level names of the model
upper(s) == CASE s = "info" -> "INFO" [] s = "debug" -> "DEBUG" [] OTHER -> s

\* a logger getLogger has not been asked for yet
NoLogger == [exists |-> FALSE, handlers |-> <<>>, level |-> None]

UnknownLevelError(level) ==
    [kind |-> "ValueError", msg |-> "Unknown level", value |-> level,
     supported |-> ValidLevels]

\* a handler attached on every call
needs_handler_always(lg) == TRUE

\* if not logger.handlers
needs_handler(lg) == lg.handlers = <<>>

\* log_level = level or config.server.log_level.upper()
log_level(config, level) == OrElse(level, upper(config.server.log_level))

\* the logger lg after the body of the `if` ran with level ll, up to the
\* statement that raises if one does (handler.setLevel comes first)
configured(lg, ll) ==
    IF ll \notin ValidLevels THEN [lg EXCEPT !.exists = TRUE]
    ELSE [exists |-> TRUE,
          handlers |-> Append(lg.handlers, [stream |-> "stdout", level |-> ll]),
          level |-> Some(ll)]

\* get_logger(name, level) with the singleton holding c and the registry
\* lgs: what the call returns
get_logger(c, lgs, name, level) ==
    Then(get_config(c), LAMBDA config :
        IF needs_handler(lgs[name]) /\ log_level(config, level) \notin ValidLevels
        THEN Err(UnknownLevelError(log_level(config, level)))
        ELSE Ok(name))

\* the logger `name` after the part of get_logger that follows get_config
get_logger_logger(config, lg, level) ==
    IF needs_handler(lg) THEN configured(lg, log_level(config, level))
                         ELSE [lg EXCEPT !.exists = TRUE]

\* get_logger(name, level): the registry after the call
get_logger_registry(c, lgs, name, level) ==
    IF ~get_config(c).ok THEN lgs
    ELSE [lgs EXCEPT ![name] = get_logger_logger(get_config(c).val[1], @, level)]

----------------------------------------------------------------------------
(* The calls made on the program, and their arguments.                     *)

MaxBuilt == 2       \* build calls that return an agent, per run

StoreKeys == {"", "a"}

ProviderArgs == {None, Some(""), Some("openai"), Some("anthropic"), Some("OpenAI"), Some("mistral")}
ModelIdArgs == {None, Some(""), Some("gpt-3.5-turbo")}

CustomModel == [cls |-> "CustomModel", id |-> "my-model", api_key |-> "my-key"]
CustomDb == [db_file |-> "custom.db", session_table |-> Some("custom_sessions")]
ToolLists == {<<>>, <<"custom-tool">>}

\* build called with only the required arguments
DefaultArgs(db_table) ==
    [name |-> "My Agent", description |-> "Does something",
     instructions |-> "Be helpful", db_table |-> db_table,
     model |-> None, db |-> None, tools |-> None, users |-> None,
     vector_db |-> None, knowledge_base |-> None, embeddings |-> None,
     add_session_state_to_context |-> TRUE,
     add_dependencies_to_context |-> TRUE,
     add_memories_to_context |-> TRUE,
     memory_config |-> None]

OptionalArgs ==
    {"model", "db", "tools", "users", "vector_db", "knowledge_base",
     "embeddings", "memory_config"} \cup ContextFlags

\* build called with the optional arguments in S given, tools given as tl
ArgsWith(db_table, S, tl) ==
    [DefaultArgs(db_table) EXCEPT
        !.model = IF "model" \in S THEN Some(CustomModel) ELSE None,
        !.db = IF "db" \in S THEN Some(CustomDb) ELSE None,
        !.tools = IF "tools" \in S THEN Some(tl) ELSE None,
        !.users = IF "users" \in S THEN Some(<<"alice">>) ELSE None,
        !.vector_db = IF "vector_db" \in S THEN Some("my_vector_db") ELSE None,
        !.knowledge_base = IF "knowledge_base" \in S THEN Some("my_documents") ELSE None,
        !.embeddings = IF "embeddings" \in S THEN Some("my_embedder") ELSE None,
        !.memory_config = IF "memory_config" \in S THEN Some("my_memory") ELSE None,
        !.add_session_state_to_context = "add_session_state_to_context" \notin S,
        !.add_dependencies_to_context = "add_dependencies_to_context" \notin S,
        !.add_memories_to_context = "add_memories_to_context" \notin S]

\* the sets of optional arguments a build call gives: none, one, or a pair
OverrideSets == {{a, b} : a, b \in OptionalArgs} \cup {{}}

BuildArgs ==
    {ArgsWith(k, S, tl) : k \in StoreKeys, S \in OverrideSets, tl \in ToolLists}

Call(op, args, res) == [op |-> op, args |-> args, res |-> res]

GetConfigCall ==
    /\ _config' = get_config_global(_config)
    /\ lastCall' = Call("get_config", <<>>, get_config(_config))
    /\ UNCHANGED <<env, world, runtime, constructed, built, store, index, ingested, pipeline, loggers>>

ResetConfigCall ==
    /\ _config' = None
    /\ lastCall' = Call("reset_config", <<>>, Ok("None"))
    /\ UNCHANGED <<env, world, runtime, constructed, built, store, index, ingested, pipeline, loggers>>

GetModelCall(provider, model_id) ==
    /\ _config' = get_config_global(_config)
    /\ lastCall' = Call("get_model", [provider |-> provider, model_id |-> model_id],
                        get_model(_config, provider, model_id))
    /\ UNCHANGED <<env, world, runtime, constructed, built, store, index, ingested, pipeline, loggers>>

\* what `built` remembers of an agent build returned
Built(args, agent) == [store_key |-> args.db_table, db |-> agent.db]

\* `built` after a build call with outcome b
Register(args, b) ==
    IF b.ok THEN built (+) SetToBag({Built(args, b.val[1])}) ELSE built

BuildCall(args) ==
    /\ BagCardinality(built) < MaxBuilt
    /\ _config' = get_config_global(_config)
    /\ built' = Register(args, build(_config, args))
    /\ lastCall' = Call("build", args, build(_config, args))
    /\ UNCHANGED <<env, world, runtime, constructed, store, index, ingested, pipeline, loggers>>

\* agno_agent.py: runtime = create_runtime()
\* `runtime` after the assignment of a create_runtime() call with outcome r
Assigned(r) == IF r.ok THEN r.val ELSE runtime

CreateRuntimeCall ==
    /\ _config' = get_config_global(_config)
    /\ runtime' = Assigned(create_runtime(_config))
    /\ constructed' = create_runtime_constructed(_config)
    /\ lastCall' = Call("create_runtime", <<>>, create_runtime(_config))
    /\ UNCHANGED <<env, world, built, store, index, ingested, pipeline, loggers>>

\* create_runtime() during which the backing file stops being openable after
\* create_research_agent() has returned: create_assist_agent() runs against
\* the file as it is then
CreateRuntimeStoreLost ==
    /\ world.db_ok
    /\ get_config(_config).ok
    /\ world' = [world EXCEPT !.db_ok = FALSE]
    /\ _config' = get_config_global(_config)
    /\ UNCHANGED <<env, built, store, index, ingested, pipeline, loggers>>
    /\ constructed' = constructed_by(create_conversation_agent(_config),
                                     create_research_agent(_config),
                                     create_assist_agent(_config)')
    /\ runtime' = Assigned(create_runtime_of(create_conversation_agent(_config),
                                             create_research_agent(_config),
                                             create_assist_agent(_config)'))
    /\ lastCall' = Call("create_runtime", <<>>,
                        create_runtime_of(create_conversation_agent(_config),
                                          create_research_agent(_config),
                                          create_assist_agent(_config)'))

\* create_assist_agent() called on its own
CreateAssistAgentCall ==
    /\ _config' = get_config_global(_config)
    /\ lastCall' = Call("create_assist_agent", <<>>, create_assist_agent(_config))
    /\ UNCHANGED <<env, world, runtime, constructed, built, store, index, ingested, pipeline, loggers>>

\* a request to a serving agent stores a turn of the session
AppendTurn(h, sid, content) ==
    /\ h \in Serving
    /\ h.db.db_file = DEFAULT_DB_FILE
    /\ TurnCount(store) < MaxTurns
    /\ store' = append(store, h.db, sid, [key |-> h.key, content |-> content])
    /\ lastCall' = Call("append", [key |-> h.key, session |-> sid, content |-> content],
                        Ok("None"))
    /\ UNCHANGED <<env, world, _config, runtime, constructed, built, index, ingested, pipeline, loggers>>

\* a request to a serving agent reads the history of the session
ReadHistory(h, sid) ==
    /\ h \in Serving
    /\ h.db.db_file = DEFAULT_DB_FILE
    /\ lastCall' = Call("read", [key |-> h.key, session |-> sid],
                        Ok(read(store, h.db, sid, HistoryWindow)))
    /\ UNCHANGED <<env, world, _config, runtime, constructed, built, store, index, ingested, pipeline, loggers>>

\* python load_knowledge.py: load_documentation().  The embedder takes its
\* key from OPENAI_API_KEY, so without it a run that reaches the embedding
\* fails before any chunk is processed.
LoadDocumentation(fail_at, kept) ==
    /\ env.OPENAI_API_KEY = None => fail_at = Some(0)
    /\ fail_at # None => kept \in {0, fail_at[1]}
    /\ fail_at = None => kept = 0
    /\ ingested < MaxRuns
    /\ pipeline # "Ingesting"
    /\ IF ~world.kb_ok
       THEN /\ lastCall' = Call("load_documentation", [skipped |-> FALSE],
                                Knowledge("tmp/lancedb", "agno_assist_knowledge",
                                          "hybrid", "text-embedding-3-small"))
            /\ UNCHANGED <<index, ingested, pipeline, loggers>>
       ELSE /\ index' = add_content(index, DOC_NAME, DOC_URL, skip_if_exists, fail_at, kept).index
            /\ ingested' = ingested + add_content(index, DOC_NAME, DOC_URL, skip_if_exists, fail_at, kept).work
            /\ pipeline' = outcome_state(add_content(index, DOC_NAME, DOC_URL, skip_if_exists, fail_at, kept).res)
            /\ lastCall' = Call("load_documentation",
                                [skipped |-> add_content(index, DOC_NAME, DOC_URL, skip_if_exists, fail_at, kept).work = 0],
                                loader_report(add_content(index, DOC_NAME, DOC_URL, skip_if_exists, fail_at, kept).res))
    /\ UNCHANGED <<env, world, _config, runtime, constructed, built, store, loggers>>

\* a run of load_documentation up to the call of add_content: the knowledge
\* base is opened and "[2/4] Downloading documentation" is printed
StartIngest ==
    /\ pipeline # "Ingesting"
    /\ world.kb_ok
    /\ ingested < MaxRuns
    /\ pipeline' = "Ingesting"
    /\ lastCall' = Call("start_ingest", <<>>, Ok("None"))
    /\ UNCHANGED <<env, world, _config, runtime, constructed, built, store, index, ingested, loggers>>

\* the rest of that run: add_content returns or raises, and the run ends
FinishIngest(fail_at, kept) ==
    /\ pipeline = "Ingesting"
    /\ env.OPENAI_API_KEY = None => fail_at = Some(0)
    /\ fail_at # None => kept \in {0, fail_at[1]}
    /\ fail_at = None => kept = 0
    /\ index' = add_content(index, DOC_NAME, DOC_URL, skip_if_exists, fail_at, kept).index
    /\ ingested' = ingested + add_content(index, DOC_NAME, DOC_URL, skip_if_exists, fail_at, kept).work
    /\ pipeline' = outcome_state(add_content(index, DOC_NAME, DOC_URL, skip_if_exists, fail_at, kept).res)
    /\ lastCall' = Call("load_documentation",
                        [skipped |-> add_content(index, DOC_NAME, DOC_URL, skip_if_exists, fail_at, kept).work = 0],
                        loader_report(add_content(index, DOC_NAME, DOC_URL, skip_if_exists, fail_at, kept).res))
    /\ UNCHANGED <<env, world, _config, runtime, constructed, built, store, loggers>>

\* a request to a registered agent retrieves context for its answer
QueryCall(i, k) ==
    /\ runtime # None
    /\ i \in DOMAIN runtime[1].agents
    /\ lastCall' = Call("query", [agent |-> runtime[1].agents[i].id, k |-> k],
                        query(runtime[1].agents[i].knowledge, index, k))
    /\ UNCHANGED <<env, world, _config, runtime, constructed, built, store, index, ingested, pipeline, loggers>>

GetLoggerCall(name, level) ==
    /\ _config' = get_config_global(_config)
    /\ loggers' = get_logger_registry(_config, loggers, name, level)
    /\ lastCall' = Call("get_logger", [name |-> name, level |-> level],
                        get_logger(_config, loggers, name, level))
    /\ UNCHANGED <<env, world, runtime, constructed, built, store, index, ingested, pipeline>>

\* config.to_dict() on the configuration that was just constructed
ToDictCall ==
    /\ lastCall.op = "AppConfig"
    /\ lastCall.res.ok
    /\ lastCall' = Call("to_dict", lastCall.args, Ok(to_dict(lastCall.res.val[1])))
    /\ UNCHANGED <<env, world, _config, runtime, constructed, built, store, index, ingested, pipeline, loggers>>

\* the environment variables change between calls (tests; see reset_config)
SetEnv(e) ==
    /\ e # env
    /\ env' = e
    /\ lastCall' = Call("setenv", e, Ok("None"))
    /\ UNCHANGED <<world, _config, runtime, constructed, built, store, index, ingested, pipeline, loggers>>

----------------------------------------------------------------------------
(* Specifications *)

Init ==
    /\ env \in Environments
    /\ world \in Worlds
    /\ _config = None
    /\ runtime = None
    /\ constructed = <<>>
    /\ built = EmptyBag
    /\ store = EmptyStore
    /\ index = <<>>
    /\ ingested = 0
    /\ pipeline = "Unloaded"
    /\ loggers = [n \in LoggerNames |-> NoLogger]
    /\ lastCall = Call("start", <<>>, Ok("None"))

\* configuration, model resolution and assembly
Next ==
    \/ GetConfigCall
    \/ ResetConfigCall
    \/ \E provider \in ProviderArgs, model_id \in ModelIdArgs :
          GetModelCall(provider, model_id)
    \/ CreateRuntimeCall

Spec == Init /\ [][Next]_vars

\* the agent builder
BuildEnvironments ==
    {e \in Environments :
        /\ (e.OPENAI_API_KEY = None) = (e.ANTHROPIC_API_KEY = None)
        /\ e.MODEL_ID = None
        /\ e.MODEL_PROVIDER \in {None, Some("anthropic"), Some("mistral")}}

InitBuild == Init /\ env \in BuildEnvironments /\ world.kb_ok

NextBuild ==
    \/ \E args \in BuildArgs : BuildCall(args)
    \/ ResetConfigCall

SpecBuild == InitBuild /\ [][NextBuild]_vars

\* requests served by assembled and built agents on the shared file
InitStore ==
    /\ Init
    /\ env = [OPENAI_API_KEY |-> Some("sk-openai-abcd"), ANTHROPIC_API_KEY |-> None,
              MODEL_PROVIDER |-> None, MODEL_ID |-> None]
    /\ world = [db_ok |-> TRUE, kb_ok |-> TRUE]

\* build called with only the required arguments, once per store key
IsolatedArgs == {DefaultArgs(k) : k \in IsolationKeys}

NextStore ==
    \/ CreateRuntimeCall
    \/ \E args \in IsolatedArgs : BuildCall(args)
    \/ \E h \in Serving, sid \in Sessions, content \in Contents : AppendTurn(h, sid, content)
    \/ \E h \in Serving, sid \in Sessions : ReadHistory(h, sid)

SpecStore == InitStore /\ [][NextStore]_vars

\* runs of the knowledge loader
FailurePoints == {None} \cup {Some(n) : n \in 0..(NumChunks - 1)}

NextIngest ==
    \E fail_at \in FailurePoints, kept \in 0..NumChunks : LoadDocumentation(fail_at, kept)

SpecIngest == Init /\ [][NextIngest]_vars

\* runs of the knowledge loader, step by step
NextLoader ==
    \/ StartIngest
    \/ \E fail_at \in FailurePoints, kept \in 0..NumChunks : FinishIngest(fail_at, kept)

SpecLoader == Init /\ [][NextLoader]_vars

\* retrieval through the registered agents, before and after loader runs
NextQuery ==
    \/ CreateRuntimeCall
    \/ NextIngest
    \/ \E i \in 1..3, k \in 1..MaxK : QueryCall(i, k)

SpecQuery == Init /\ [][NextQuery]_vars

\* the configuration singleton while the environment changes
ConfigEnvironments ==
    {e \in Environments :
        /\ e.MODEL_ID = None
        /\ e.MODEL_PROVIDER \in {None, Some("anthropic"), Some("mistral")}}

InitConfig ==
    /\ Init
    /\ env \in ConfigEnvironments
    /\ world = [db_ok |-> TRUE, kb_ok |-> TRUE]

NextConfig ==
    \/ GetConfigCall
    \/ ResetConfigCall
    \/ \E provider \in {None, Some("openai"), Some("mistral")}, model_id \in {None} :
          GetModelCall(provider, model_id)
    \/ \E e \in ConfigEnvironments : SetEnv(e)

SpecConfig == InitConfig /\ [][NextConfig]_vars

\* a configuration constructed with any two keys, of which __post_init__
\* requires one to be non-empty, and its display form
InitDict ==
    /\ env \in ConfigEnvironments
    /\ world = [db_ok |-> TRUE, kb_ok |-> TRUE]
    /\ _config = None
    /\ runtime = None
    /\ constructed = <<>>
    /\ built = EmptyBag
    /\ store = EmptyStore
    /\ index = <<>>
    /\ ingested = 0
    /\ pipeline = "Unloaded"
    /\ loggers = [n \in LoggerNames |-> NoLogger]
    /\ \E oa \in KeyValues, an \in KeyValues :
          /\ ~(oa = <<>> /\ an = <<>>)
          /\ lastCall = Call("AppConfig", [openai |-> oa, anthropic |-> an],
                             Ok(AppConfigWith(oa, an)))

NextDict == ToDictCall

SpecDict == InitDict /\ [][NextDict]_vars

\* assembly, with the assist agent also created on its own and the backing
\* file possibly lost while the runtime is assembled
NextAssemble ==
    \/ CreateRuntimeCall
    \/ CreateAssistAgentCall
    \/ CreateRuntimeStoreLost

SpecAssemble == Init /\ [][NextAssemble]_vars

\* loggers asked for by the modules
NextLogger ==
    \/ \E name \in LoggerNames, level \in LevelArgs : GetLoggerCall(name, level)
    \/ ResetConfigCall

SpecLogger == Init /\ [][NextLogger]_vars

----------------------------------------------------------------------------
(* Properties of BaseAgentBuilder.build (SpecBuild) *)

BuildReturned == lastCall.op = "build" /\ lastCall.res.ok

\* the model client get_model() gives under configuration cfg
ConfiguredModel(cfg) ==
    [cls |-> IF cfg.model.provider = "openai" THEN "OpenAIChat" ELSE "Claude",
     id |-> cfg.model.model_id,
     api_key |-> IF cfg.model.provider = "openai"
                 THEN cfg.openai.api_key ELSE cfg.anthropic.api_key]

C6_BuildRejectsEmptyAndDuplicateKeys ==
    \A b \in BagToSet(built) :
        /\ b.store_key # ""
        /\ CopiesIn(b, built) <= 1

----------------------------------------------------------------------------
(* Properties of model resolution and assembly (Spec) *)

Assembled == lastCall.op = "create_runtime" /\ lastCall.res.ok

\* the provider the environment selects, and its credential
SelectedProvider ==
    IF env.MODEL_PROVIDER = None THEN "openai"
    ELSE IF env.MODEL_PROVIDER = Some("OpenAI") THEN "openai"
    ELSE env.MODEL_PROVIDER[1]

SelectedCredential ==
    IF SelectedProvider = "openai" THEN env.OPENAI_API_KEY ELSE env.ANTHROPIC_API_KEY

\* C3: when the credential of the selected provider is empty, create_runtime
\* fails before any agent is constructed and the registry exposes none.
C3_MissingCredentialFailsAssembly ==
    (/\ lastCall.op = "create_runtime"
     /\ SelectedProvider \in SupportedProviders
     /\ SelectedCredential = None)
    => /\ ~lastCall.res.ok
       /\ constructed = <<>>
       /\ runtime = None

\* the provider get_model resolves: a non-empty override, else the configured one
EffectiveProvider(args, cfg) ==
    IF args.provider \in {None, Some("")} THEN cfg.model.provider ELSE args.provider[1]

\* C4 as stated: get_model with a provider outside the supported set, given
\* as an override or taken from the configuration, fails with a
\* ConfigurationError naming the value and the supported set.
C4_UnknownProviderConfigurationError ==
    (/\ lastCall.op = "get_model"
     /\ \/ /\ lastCall.args.provider # None
           /\ lastCall.args.provider[1] \notin SupportedProviders
        \/ /\ lastCall.args.provider = None
           /\ SelectedProvider \notin SupportedProviders)
    => /\ ~lastCall.res.ok
       /\ lastCall.res.err[1].kind = "ConfigurationError"
       /\ lastCall.res.err[1].supported = SupportedProviders

\* C4 amended: when the configuration loads, get_model whose effective
\* provider (the override unless it is None or empty, else the configured
\* provider) is outside {openai, anthropic} raises a ValueError naming that
\* value and the supported set and returns no client; otherwise it returns a
\* client.
C4_UnknownProviderValueError ==
    (lastCall.op = "get_model" /\ _config # None) =>
        LET p == EffectiveProvider(lastCall.args, _config[1]) IN
        IF p \notin {"openai", "anthropic"}
        THEN /\ ~lastCall.res.ok
             /\ lastCall.res.val = None
             /\ lastCall.res.err[1].kind = "ValueError"
             /\ lastCall.res.err[1].value = p
             /\ lastCall.res.err[1].supported = {"openai", "anthropic"}
        ELSE lastCall.res.ok

C4_Witness ==
    /\ lastCall.op = "get_model"
    /\ _config # None
    /\ lastCall.args.provider = Some("mistral")
    /\ ~lastCall.res.ok
    /\ lastCall.res.err[1].value = "mistral"

\* C5: when the knowledge base cannot be constructed while the assist agent
\* is created, create_runtime still returns: the registry holds the three
\* agents, the assist agent has no knowledge attached, and the failure was
\* printed, not raised.
C5_KnowledgeFailureAbsorbed ==
    (/\ lastCall.op = "create_runtime"
     /\ ~world.kb_ok
     /\ Len(constructed) >= 2)
    => /\ lastCall.res.ok
       /\ runtime = Some(lastCall.res.val[1])
       /\ Len(runtime[1].agents) = 3
       /\ runtime[1].agents[3].id = Some(ASSIST_AGENT_CONFIG.db_table)
       /\ runtime[1].agents[3].knowledge = None
       /\ \E i \in DOMAIN lastCall.res.log :
             lastCall.res.log[i] = "[WARNING] Could not create knowledge base"

C5_Witness ==
    /\ Assembled
    /\ ~world.kb_ok
    /\ runtime # None
    /\ runtime[1].agents[3].knowledge = None
    /\ runtime[1].agents[1].id = Some(CONVERSATION_AGENT_CONFIG.db_table)
    /\ runtime[1].agents[2].id = Some(RESEARCH_AGENT_CONFIG.db_table)

\* C7: after assembly the three agents have pairwise distinct store keys and
\* each one's store handle is opened on the shared file under its own store
\* key, so no two use the same conversation table.
C7_OneTablePerStoreKey ==
    runtime # None =>
        LET ags == runtime[1].agents IN
        /\ \A i, j \in DOMAIN ags : i # j => ags[i].id # ags[j].id
        /\ \A i \in DOMAIN ags :
              /\ ags[i].db.db_file = DEFAULT_DB_FILE
              /\ ags[i].db.session_table = ags[i].id
        /\ \A i, j \in DOMAIN ags :
              i # j => ags[i].db.session_table # ags[j].db.session_table

\* C8: the conversation agent of the registry has the full tool set
\* attached, no knowledge and history window 3.
C8_ConversationAgentHasTools ==
    runtime # None =>
        LET a == runtime[1].agents[1] IN
        /\ a.id = Some(CONVERSATION_AGENT_CONFIG.db_table)
        /\ a.tools # None
        /\ a.tools[1] # <<>>
        /\ a.knowledge = None
        /\ a.num_history_runs = Some(3)

\* C9: the research agent of the registry has exactly the remote (MCP) tool
\* set, no knowledge, history window 3, and does not include memories.
C9_ResearchAgentShape ==
    runtime # None =>
        LET a == runtime[1].agents[2] IN
        /\ a.id = Some(RESEARCH_AGENT_CONFIG.db_table)
        /\ a.tools = Some(<<[cls |-> "MCPTools", transport |-> "streamable-http",
                             url |-> "https://docs.agno.com/mcp"]>>)
        /\ a.knowledge = None
        /\ a.attrs = NoAttrs
        /\ a.num_history_runs = Some(3)
        /\ "add_history_to_context" \in a.flags_on
        /\ "add_memories_to_context" \notin a.flags_on

C9_Witness ==
    /\ Assembled
    /\ runtime # None
    /\ runtime[1].agents[2].name = "Research Agent"
    /\ Len(runtime[1].agents[2].tools[1]) = 1

\* C14: get_model resolves the provider and the model id independently:
\* each is the caller's override when one is supplied and the configured
\* value when it is omitted, and the client returned is the one of the
\* resolved provider, with the resolved model id and that provider's key.
C14_OverridesResolveIndependently ==
    (lastCall.op = "get_model" /\ _config # None /\ lastCall.res.ok) =>
        LET a == lastCall.args
            cfg == _config[1]
            client == lastCall.res.val[1]
            p == IF a.provider # None THEN a.provider[1] ELSE cfg.model.provider
            m == IF a.model_id # None THEN a.model_id[1] ELSE cfg.model.model_id
        IN  /\ p \in {"openai", "anthropic"}
            /\ client.cls = (IF p = "openai" THEN "OpenAIChat" ELSE "Claude")
            /\ client.id = m
            /\ client.api_key = (IF p = "openai" THEN cfg.openai.api_key
                                                 ELSE cfg.anthropic.api_key)

\* C15: loading the configuration fails, with a ValueError, exactly when
\* both API keys are empty; with one key set it succeeds whatever provider
\* is selected.
C15_ConfigFailsIffBothKeysEmpty ==
    lastCall.op = "get_config" =>
        /\ lastCall.res.ok =
              ~(env.OPENAI_API_KEY = None /\ env.ANTHROPIC_API_KEY = None)
        /\ ~lastCall.res.ok =>
              /\ lastCall.res.err[1].kind = "ValueError"
              /\ lastCall.res.err[1].msg = "No API key configured"
              /\ _config = None

C15_Witness ==
    /\ lastCall.op = "get_config"
    /\ lastCall.res.ok
    /\ SelectedProvider = "openai"
    /\ env.OPENAI_API_KEY = None
    /\ lastCall.res.val[1].openai.api_key = ""

\* C17: a create_runtime that returns yields a registry of exactly three
\* agents, constructed in the order conversation, research, assist, each
\* with the identifier that is its store key.
C17_RegistryOfThreeInOrder ==
    Assembled =>
        /\ runtime = lastCall.res.val
        /\ Len(runtime[1].agents) = 3
        /\ constructed = runtime[1].agents
        /\ runtime[1].agents[1].id = Some("agno-smart-assistant")
        /\ runtime[1].agents[1].name = "Agno Smart Assistant"
        /\ runtime[1].agents[2].id = Some("research-agent")
        /\ runtime[1].agents[2].name = "Research Agent"
        /\ runtime[1].agents[3].id = Some("assist-agent")
        /\ runtime[1].agents[3].name = "Agno Assist"

C17_Witness ==
    /\ Assembled
    /\ world.kb_ok
    /\ Len(constructed) = 3
    /\ runtime[1].agents[3].knowledge # None

----------------------------------------------------------------------------
(* Properties of build when resolution fails (SpecBuild) *)

\* C18: when get_model or the opening of the store fails inside build, the
\* call raises that same error (get_model's ValueError naming the provider,
\* the store's error naming the file) and returns no agent; build raises
\* nothing else and never returns an agent on a substitute store.
C18_BuildPropagatesErrors ==
    (lastCall.op = "build" /\ _config # None) =>
        LET a == lastCall.args
            cfg == _config[1]
            model_fails == a.model = None /\ cfg.model.provider \notin {"openai", "anthropic"}
            store_fails == a.db = None /\ ~world.db_ok
        IN  /\ model_fails =>
                  /\ ~lastCall.res.ok
                  /\ lastCall.res.val = None
                  /\ lastCall.res.err[1].kind = "ValueError"
                  /\ lastCall.res.err[1].value = cfg.model.provider
                  /\ lastCall.res.err[1].supported = {"openai", "anthropic"}
            /\ (~model_fails /\ store_fails) =>
                  /\ ~lastCall.res.ok
                  /\ lastCall.res.val = None
                  /\ lastCall.res.err[1].kind = "StorageError"
                  /\ lastCall.res.err[1].value = cfg.database.db_file
            /\ ~lastCall.res.ok => (model_fails \/ store_fails)
            /\ \A b \in BagToSet(built) : b.db.db_file \in {"agno.db", "custom.db"}

C18_Witness ==
    /\ lastCall.op = "build"
    /\ ~lastCall.res.ok
    /\ lastCall.res.err[1].kind = "StorageError"
    /\ lastCall.args.model = None
    /\ built = EmptyBag

----------------------------------------------------------------------------
(* Properties of the configuration singleton (SpecConfig) *)

\* the configuration cfg holds what the environment holds now
FromEnvironment(cfg) ==
    /\ cfg.openai.api_key = (IF env.OPENAI_API_KEY = None THEN "" ELSE env.OPENAI_API_KEY[1])
    /\ cfg.anthropic.api_key = (IF env.ANTHROPIC_API_KEY = None THEN "" ELSE env.ANTHROPIC_API_KEY[1])
    /\ cfg.model.provider = SelectedProvider

\* C13: while the singleton is set, get_config returns it and loads
\* nothing, whatever the environment has become; reset_config clears it;
\* and a get_config that finds it cleared loads an instance from the
\* environment as it is then, which becomes the singleton.
C13_SingletonBetweenResets ==
    [][/\ lastCall'.op = "reset_config" => _config' = None
       /\ lastCall'.op = "get_config" =>
             IF _config # None
             THEN /\ _config' = _config
                  /\ lastCall'.res.ok
                  /\ lastCall'.res.val = _config
             ELSE /\ lastCall'.res.ok =>
                        /\ _config' = lastCall'.res.val
                        /\ FromEnvironment(lastCall'.res.val[1])
                  /\ ~lastCall'.res.ok => _config' = None]_vars

C13_Witness ==
    /\ lastCall.op = "get_config"
    /\ lastCall.res.ok
    /\ lastCall.res.val = _config
    /\ ~FromEnvironment(_config[1])

\* C19 as stated: a get_model call, returning or raising, changes nothing
\* of the program state, the configuration singleton included.
C19_GetModelChangesNothing ==
    [][lastCall'.op = "get_model" =>
          UNCHANGED <<env, world, _config, runtime, constructed, built, store,
                      index, ingested, pipeline, loggers>>]_vars

\* C19 amended: a get_model call changes nothing but the configuration
\* singleton, and that only when it finds it unset: the call then loads the
\* configuration from the environment (it stays unset when the load
\* fails); a singleton that is set is left as it is.
C19_GetModelOnlyLoadsConfig ==
    [][lastCall'.op = "get_model" =>
          /\ UNCHANGED <<env, world, runtime, constructed, built, store,
                         index, ingested, pipeline, loggers>>
          /\ _config # None => _config' = _config
          /\ _config = None =>
                \/ _config' = None /\ ~lastCall'.res.ok
                \/ _config' # None /\ FromEnvironment(_config'[1])]_vars

C19_Witness ==
    /\ lastCall.op = "get_model"
    /\ lastCall.args.provider = None
    /\ ~lastCall.res.ok
    /\ lastCall.res.err[1].value = "mistral"
    /\ _config # None
    /\ FromEnvironment(_config[1])

----------------------------------------------------------------------------
(* Properties of retrieval (SpecQuery) *)

\* the registered agent with identifier id
AgentById(id) ==
    runtime[1].agents[CHOOSE i \in DOMAIN runtime[1].agents : runtime[1].agents[i].id = id]

----------------------------------------------------------------------------
(* Properties of the conversation store (SpecStore) *)

\* C2: a read of history under store key K never returns a turn that was
\* appended under another store key.
C2_ReadReturnsOwnTurnsOnly ==
    lastCall.op = "read" =>
        \A i \in DOMAIN lastCall.res.val[1] :
            lastCall.res.val[1][i].key = lastCall.args.key

----------------------------------------------------------------------------
(* Properties of the knowledge loader (SpecIngest) *)

LoaderRan == lastCall'.op = "load_documentation"

\* C10: a run of the loader that finds the source already in the table
\* leaves the table as it is and does no ingestion work, so a second run
\* after a first one that stored the source changes nothing.
C10_SecondIngestIsNoOp ==
    [][(LoaderRan /\ world.kb_ok /\ SourcePresent(index, DOC_NAME))
          => (/\ index' = index
              /\ ingested' = ingested
              /\ lastCall'.res.ok
              /\ lastCall'.args.skipped)]_vars

C10_Witness ==
    /\ lastCall.op = "load_documentation"
    /\ lastCall.res.ok
    /\ lastCall.args.skipped
    /\ ingested = 1
    /\ index = ChunksOf(DOC_NAME)

----------------------------------------------------------------------------
(* Properties of the loader's runs, step by step (SpecLoader) *)

\* C20 as stated: the source only moves Unloaded -> Ingesting -> Ready,
\* with Failed reached only from Ingesting and never left.
C20_OnlyForwardAndFailedTerminal ==
    [][pipeline' # pipeline =>
          <<pipeline, pipeline'>> \in {<<"Unloaded", "Ingesting">>,
                                       <<"Ingesting", "Ready">>,
                                       <<"Ingesting", "Failed">>}]_vars

\* C20 amended: every run of the loader takes the source to Ingesting and
\* from there to Ready (add_content returned) or to Failed (it raised);
\* Ready and Failed are reached from Ingesting only, and both end the run
\* but not the source: a later run starts from Unloaded, Ready or Failed.
C20_RunsPassThroughIngesting ==
    [][pipeline' # pipeline =>
          \/ /\ pipeline \in {"Unloaded", "Ready", "Failed"}
             /\ pipeline' = "Ingesting"
          \/ /\ pipeline = "Ingesting"
             /\ pipeline' \in {"Ready", "Failed"}
             /\ (pipeline' = "Ready") = lastCall'.res.ok]_vars

C20_Witness ==
    /\ pipeline = "Ready"
    /\ ingested = 2
    /\ index = ChunksOf(DOC_NAME)
    /\ lastCall.op = "load_documentation"
    /\ lastCall.res.ok

----------------------------------------------------------------------------
(* Properties of get_logger (SpecLogger) *)

\* C21 as stated: every logger that was asked for has exactly one handler.
C21_ExactlyOneHandler ==
    \A n \in LoggerNames : loggers[n].exists => Len(loggers[n].handlers) = 1

\* C21 amended: no logger has more than one handler; a get_logger call
\* that returns leaves its logger with exactly one, which is the one the
\* first returning call for that name set up (later calls add none and
\* change none, whatever level they pass); a call that raises attaches none.
C21_AtMostOneHandler ==
    [][lastCall'.op = "get_logger" =>
          /\ \A n \in LoggerNames :
                /\ Len(loggers'[n].handlers) <= 1
                /\ loggers[n].handlers # <<>> => loggers'[n] = loggers[n]
                /\ n # lastCall'.args.name => loggers'[n] = loggers[n]
          /\ lastCall'.res.ok => Len(loggers'[lastCall'.args.name].handlers) = 1
          /\ ~lastCall'.res.ok => loggers'[lastCall'.args.name].handlers = <<>>]_vars

C21_Witness ==
    /\ lastCall.op = "get_logger"
    /\ lastCall.res.ok
    /\ lastCall.args.level = Some("DEBUG")
    /\ Len(loggers[lastCall.args.name].handlers) = 1
    /\ loggers[lastCall.args.name].handlers[1].level = "INFO"

----------------------------------------------------------------------------
(* Properties of AppConfig.to_dict (SpecDict) *)

\* the last four characters of key, or all of it when it has fewer
LastFour(key) ==
    LET n == IF Len(key) < 4 THEN Len(key) ELSE 4
    IN  [i \in 1..n |-> key[Len(key) - n + i]]

\* C22: for each provider, to_dict shows "***" followed by the last four
\* characters of the key, or by NOT SET when the key is empty, and never
\* "***" followed by the complete key.
C22_MaskNeverShowsWholeKey ==
    lastCall.op = "to_dict" =>
        \A p \in {"openai", "anthropic"} :
            LET key == lastCall.args[p]
                shown == lastCall.res.val[1][p].api_key
            IN  /\ shown = Stars \o (IF key = <<>> THEN NotSet ELSE LastFour(key))
                /\ key # <<>> => shown # Stars \o key

----------------------------------------------------------------------------
(* A load that fails validation (SpecConfig) *)

NoKeyInEnvironment ==
    /\ env.OPENAI_API_KEY \in {None, Some("")}
    /\ env.ANTHROPIC_API_KEY \in {None, Some("")}

\* C23: a get_config call that finds no configuration loaded, in an
\* environment whose load fails validation, raises the ValueError to its
\* caller and leaves the singleton unset; every call that finds the
\* singleton unset loads from the environment again, so the call after a
\* failure returns a validated instance once a key is set and fails again
\* otherwise, and never returns an instance that holds no key.
C23_FailedLoadLeavesUnset ==
    [][(lastCall'.op = "get_config" /\ _config = None) =>
          IF NoKeyInEnvironment
          THEN /\ ~lastCall'.res.ok
               /\ lastCall'.res.val = None
               /\ lastCall'.res.err # <<>>
               /\ lastCall'.res.err[1].kind = "ValueError"
               /\ _config' = None
          ELSE /\ lastCall'.res.ok
               /\ _config' = lastCall'.res.val
               /\ FromEnvironment(_config'[1])
               /\ ~(_config'[1].openai.api_key = "" /\ _config'[1].anthropic.api_key = "")]_vars

C23_Witness ==
    /\ lastCall.op = "get_config"
    /\ ~lastCall.res.ok
    /\ lastCall.res.err[1].kind = "ValueError"
    /\ _config = None
    /\ NoKeyInEnvironment

----------------------------------------------------------------------------
(* Failures inside create_assist_agent (SpecAssemble) *)

\* C24: create_assist_agent absorbs only the failure of the knowledge base:
\* it raises the configuration's error, the store's error or get_model's
\* error when one of them occurs, and otherwise returns an agent whose
\* knowledge is None exactly when the knowledge base could not be
\* constructed; a create_runtime that stops after two agents were
\* constructed raises the third factory's error and returns no runtime,
\* and a create_runtime that raises never returns one.
C24_OnlyKnowledgeFailureAbsorbed ==
    /\ lastCall.op = "create_assist_agent" =>
          IF _config = None
          THEN /\ ~lastCall.res.ok
               /\ lastCall.res.err[1].kind = "ValueError"
          ELSE IF ~world.db_ok
          THEN /\ ~lastCall.res.ok
               /\ lastCall.res.err[1] = StorageError(_config[1].database.db_file)
          ELSE IF _config[1].model.provider \notin SupportedProviders
          THEN /\ ~lastCall.res.ok
               /\ lastCall.res.err[1].kind = "ValueError"
               /\ lastCall.res.err[1].value = _config[1].model.provider
          ELSE /\ lastCall.res.ok
               /\ lastCall.res.val[1].db.db_file = _config[1].database.db_file
               /\ lastCall.res.val[1].model.cls \in {"OpenAIChat", "Claude"}
               /\ (lastCall.res.val[1].knowledge = None) <=> ~world.kb_ok
    /\ lastCall.op = "create_runtime" =>
          /\ ~lastCall.res.ok => lastCall.res.val = None
          /\ lastCall.res.ok <=> Len(constructed) = 3
          /\ Len(constructed) = 2 =>
                /\ ~lastCall.res.ok
                /\ lastCall.res.err[1].kind \in {"StorageError", "ValueError"}
                /\ constructed[1].id = Some(CONVERSATION_AGENT_CONFIG.db_table)
                /\ constructed[2].id = Some(RESEARCH_AGENT_CONFIG.db_table)

C24_Witness ==
    /\ lastCall.op = "create_runtime"
    /\ Len(constructed) = 2
    /\ ~lastCall.res.ok
    /\ lastCall.res.val = None
    /\ lastCall.res.err[1].kind = "StorageError"
    /\ runtime = None

====
